---- MODULE Spec2Model ----
(***************************************************************************)
(* A model of lintransforms: the Transformation variants, the Solver       *)
(* variants and the Pipeline that chains them.                             *)
(*                                                                         *)
(* Arrays are numpy ndarrays: a heap of buffers (shape + row-major data)   *)
(* and views onto them (a buffer and an axis permutation), so that copies, *)
(* transposed views and in-place updates alias as they do in numpy.        *)
(* Floating-point numbers are modelled by exact rationals.                 *)
(***************************************************************************)
EXTENDS Integers, Sequences, FiniteSets, TLC

\* ------------------------------------------------------------------------
\* Bounds
\* ------------------------------------------------------------------------
MaxNdim == 3
MaxSize == 2
MaxLen == 2
MaxDim == 2

\* ------------------------------------------------------------------------
\* Rationals: <<n, d>> with d > 0 and gcd(n, d) = 1
\* ------------------------------------------------------------------------
Abs(n) == IF n < 0 THEN -n ELSE n

RECURSIVE Gcd(_, _)
Gcd(a, b) == IF b = 0 THEN a ELSE Gcd(b, a % b)

Rat(n, d) ==
    LET g == Gcd(Abs(n), Abs(d))
        s == IF d < 0 THEN -1 ELSE 1
    IN  <<(s * n) \div g, (s * d) \div g>>

RInt(n) == <<n, 1>>
RZero == RInt(0)
ROne == RInt(1)
RAdd(p, q) == Rat(p[1] * q[2] + q[1] * p[2], p[2] * q[2])
RMul(p, q) == Rat(p[1] * q[1], p[2] * q[2])
RNeg(p) == <<-p[1], p[2]>>
RInv(p) == Rat(p[2], p[1])

\* F(e), with e evaluated once
Bind(e, F(_)) == CHOOSE r \in {F(v) : v \in {e}} : TRUE

RECURSIVE RSum(_)
RSum(s) == IF s = <<>> THEN RZero ELSE RAdd(Head(s), RSum(Tail(s)))

\* ------------------------------------------------------------------------
\* ndarray values: shape (a sequence of sizes) and row-major data.
\* Axes and indices are 0-based as in Python; TLA+ sequences are 1-based.
\* ------------------------------------------------------------------------
RECURSIVE Prod(_)
Prod(s) == IF s = <<>> THEN 1 ELSE Head(s) * Prod(Tail(s))

Arr(shape, data) == [shape |-> shape, data |-> data]

Ndim(a) == Len(a.shape)

\* the flat position (0-based) of the index tuple idx in an array of the shape
RECURSIVE Flat(_, _)
Flat(shape, idx) ==
    IF shape = <<>> THEN 0
    ELSE LET n == Len(shape)
         IN  Flat(SubSeq(shape, 1, n - 1), SubSeq(idx, 1, n - 1)) * shape[n] + idx[n]

\* the index tuple at flat position k (0-based)
RECURSIVE Unflat(_, _)
Unflat(shape, k) ==
    IF shape = <<>> THEN <<>>
    ELSE LET n == Len(shape)
         IN  Append(Unflat(SubSeq(shape, 1, n - 1), k \div shape[n]), k % shape[n])

\* element (r, c) of a 2-D array
At(a, r, c) == a.data[r * a.shape[2] + c + 1]

\* a function on 1..n as an explicit sequence
AsSeq(f) == f \o <<>>

Mat(m, n, f(_, _)) ==
    Arr(<<m, n>>, AsSeq([k \in 1..(m * n) |-> f((k - 1) \div n, (k - 1) % n)]))

\* x.T of a 2-D array
Transpose(x) == Bind(x, LAMBDA a : Mat(a.shape[2], a.shape[1], LAMBDA r, c : At(a, c, r)))

\* a @ b of two 2-D arrays whose inner dimensions agree
MatMul(x, y) ==
    Bind(<<x, y>>, LAMBDA p :
        LET a == p[1]
            b == p[2]
        IN  Mat(a.shape[1], b.shape[2],
                LAMBDA r, c : RSum([k \in 1..a.shape[2] |->
                                       RMul(At(a, r, k - 1), At(b, k - 1, c))])))

\* the matrix a without row r and column c
Minor(x, r, c) ==
    Bind(x, LAMBDA a :
        Mat(a.shape[1] - 1, a.shape[2] - 1,
            LAMBDA p, q : At(a, IF p < r THEN p ELSE p + 1, IF q < c THEN q ELSE q + 1)))

\* determinant of a square matrix, by expansion along the first row
RECURSIVE Det(_)
Det(x) ==
    Bind(x, LAMBDA a :
        IF a.shape[1] = 0 THEN ROne
        ELSE RSum([k \in 1..a.shape[2] |->
                     RMul(IF k % 2 = 1 THEN At(a, 0, k - 1) ELSE RNeg(At(a, 0, k - 1)),
                          Det(Minor(a, 0, k - 1)))]))

\* the rows rs and columns cs (sequences of 0-based positions) of a
SubMat(x, rs, cs) ==
    Bind(x, LAMBDA a : Mat(Len(rs), Len(cs), LAMBDA r, c : At(a, rs[r + 1], cs[c + 1])))

\* strictly increasing sequences of k positions out of 0..n-1
IncSeqs(n, k) == {s \in [1..k -> 0..(n - 1)] : \A p \in 1..(k - 1) : s[p] < s[p + 1]}

\* np.linalg.matrix_rank of a 2-D array: the size of its largest nonzero minor
HasMinor(a, k) ==
    \E rs \in IncSeqs(a.shape[1], k) : \E cs \in IncSeqs(a.shape[2], k) :
        Det(SubMat(a, rs, cs)) # RZero

MinOf(m, n) == IF m < n THEN m ELSE n

matrix_rank(x) ==
    Bind(x, LAMBDA a :
        Bind({k \in 0..MinOf(a.shape[1], a.shape[2]) : HasMinor(a, k)}, LAMBDA ks :
            CHOOSE k \in ks : \A j \in ks : j <= k))

\* np.linalg.inv of a nonsingular square matrix: adjugate over determinant
MatInv(x) ==
    Bind(<<x, RInv(Det(x))>>, LAMBDA p :
        LET a == p[1]
            d == p[2]
        IN  Mat(a.shape[1], a.shape[2],
                LAMBDA r, c : RMul(d, RMul(IF (r + c) % 2 = 0 THEN ROne ELSE RNeg(ROne),
                                           Det(Minor(a, c, r))))))

\* np.linalg.pinv of a 2-D array, from a rank factorisation a = B C with B a
\* maximal set of independent columns: pinv(a) = C^T (C C^T)^-1 (B^T B)^-1 B^T
Pinv(x) ==
    Bind(<<x, matrix_rank(x)>>, LAMBDA p :
        LET a == p[1]
            r == p[2]
            m == a.shape[1]
            n == a.shape[2]
            rows == [k \in 1..m |-> k - 1]
        IN  IF r = 0 THEN Mat(n, m, LAMBDA u, v : RZero)
            ELSE Bind(SubMat(a, rows, CHOOSE c \in IncSeqs(n, r) :
                                          matrix_rank(SubMat(a, rows, c)) = r), LAMBDA B :
                 Bind(MatMul(MatInv(MatMul(Transpose(B), B)), Transpose(B)), LAMBDA Bl :
                 Bind(MatMul(Bl, a), LAMBDA C :
                      MatMul(MatMul(Transpose(C), MatInv(MatMul(C, Transpose(C)))), Bl)))))

\* ------------------------------------------------------------------------
\* The heap: a sequence of buffers; an ndarray object is a view, a buffer
\* and the base axis each of its axes runs along.
\* ------------------------------------------------------------------------
Range(n) == [k \in 1..n |-> k - 1]

View(b, perm) == [buf |-> b, perm |-> perm]

ViewShape(h, v) == [k \in 1..Len(v.perm) |-> h[v.buf].shape[v.perm[k] + 1]]

\* the view index of the element at base index b
BaseToView(v, b) == [k \in 1..Len(v.perm) |-> b[v.perm[k] + 1]]

\* the base index of the element at view index idx
ViewToBase(v, idx) ==
    [a \in 1..Len(v.perm) |-> idx[CHOOSE k \in 1..Len(v.perm) : v.perm[k] = a - 1]]

ViewGet(h, v, idx) == h[v.buf].data[Flat(h[v.buf].shape, ViewToBase(v, idx)) + 1]

\* the array a view denotes
Value(h, v) ==
    Bind(AsSeq(ViewShape(h, v)), LAMBDA sh :
        Arr(sh, AsSeq([k \in 1..Prod(sh) |-> ViewGet(h, v, Unflat(sh, k - 1))])))

\* a new buffer holding the array a; the result is <<heap, view>>
Alloc(h, a) == <<Append(h, a), View(Len(h) + 1, Range(Ndim(a)))>>

\* np.copy(x)
np_copy(h, v) == Alloc(h, Value(h, v))

\* einops.rearrange(x, "d0 d1 .. -> d{p[0]} d{p[1]} .."): a transposed view
rearrange(v, p) == View(v.buf, [k \in 1..Len(p) |-> v.perm[p[k] + 1]])

\* an in-place update through a view: the element at view index idx becomes
\* f(idx, old value)
InPlace(h, v, f(_, _)) ==
    Bind(h[v.buf], LAMBDA b :
        [h EXCEPT ![v.buf].data =
            AsSeq([k \in 1..Len(b.data) |->
                      f(BaseToView(v, Unflat(b.shape, k - 1)), b.data[k])])])

\* np.argsort of a permutation
argsort(p) == [j \in 1..Len(p) |-> (CHOOSE k \in 1..Len(p) : p[k] = j - 1) - 1]

\* np.dot(x, M) and np.matmul(x, M) for an N-D x (N >= 1) and a 2-D M whose
\* first dimension is x's last: x as a stack of rows, times M
DotLast(a, M) ==
    LET n == Ndim(a)
        K == a.shape[n]
        rows == Prod(SubSeq(a.shape, 1, n - 1))
    IN  Arr(SubSeq(a.shape, 1, n - 1) \o <<M.shape[2]>>,
            MatMul(Arr(<<rows, K>>, a.data), M).data)

\* the stack of trailing square matrices of a, as a sequence of 2-D arrays
Stack(a) ==
    LET n == a.shape[Ndim(a)]
    IN  AsSeq([b \in 1..Prod(SubSeq(a.shape, 1, Ndim(a) - 2)) |->
                  Arr(<<n, n>>, SubSeq(a.data, (b - 1) * n * n + 1, b * n * n))])

RECURSIVE Concat(_)
Concat(ss) == IF ss = <<>> THEN <<>> ELSE Head(ss) \o Concat(Tail(ss))

\* ------------------------------------------------------------------------
\* Transformation variants: an instance is a record of its dataclass fields
\* ------------------------------------------------------------------------
Identity == [kind |-> "Identity"]
Rotation(R) == [kind |-> "Rotation", rotation |-> R]
Inverse == [kind |-> "Inverse"]
Reflection(axis) == [kind |-> "Reflection", axis |-> axis]
Dilation(factor) == [kind |-> "Dilation", factor |-> factor]
Shear(factor, axis, source_axis) ==
    [kind |-> "Shear", factor |-> factor, axis |-> axis, source_axis |-> source_axis]
Projection(P) == [kind |-> "Projection", projection |-> P]

\* the outcome of a call: the heap after it, and the returned array or the
\* type of the exception raised
NoView == View(0, <<>>)
Return(h, v) == [heap |-> h, res |-> v, exc |-> "none"]
Raise(h, e) == [heap |-> h, res |-> NoView, exc |-> e]
ReturnNew(hv) == Bind(hv, LAMBDA p : Return(p[1], p[2]))

Identity_apply(t, h, x) == Return(h, x)

Rotation_apply(t, h, x) ==
    Bind(Value(h, x), LAMBDA a :
        IF a.shape[Ndim(a)] # t.rotation.shape[1]
        THEN Raise(h, "ValueError")
        ELSE ReturnNew(Alloc(h, DotLast(a, t.rotation))))

Inverse_apply(t, h, x) ==
    Bind(Value(h, x), LAMBDA a :
        LET n == Ndim(a)
        IN  IF n < 2 THEN Raise(h, "IndexError")
            ELSE IF a.shape[n] # a.shape[n - 1] THEN Raise(h, "ValueError")
            ELSE Bind(Stack(a), LAMBDA st :
                     IF \E b \in 1..Len(st) : Det(st[b]) = RZero
                     THEN Raise(h, "LinAlgError")
                     ELSE ReturnNew(Alloc(h, Arr(a.shape,
                              Concat([b \in 1..Len(st) |-> MatInv(st[b]).data]))))))

\* Reflection.apply without its axis check
Reflection_apply_unchecked(t, h, x) ==
    Bind(np_copy(h, x), LAMBDA c :
        LET x_copy == rearrange(c[2], Range(Len(x.perm)))
        IN  Return(InPlace(c[1], x_copy, LAMBDA idx, old : RMul(old, RInt(-1))), x_copy))

\* Reflection.apply negating x itself instead of a copy
Reflection_apply_inplace(t, h, x) ==
    LET nd == Len(x.perm)
    IN  IF ~(0 <= t.axis /\ t.axis < nd) THEN Raise(h, "ValueError")
        ELSE LET x_copy == rearrange(x, Range(nd))
             IN  Return(InPlace(h, x_copy, LAMBDA idx, old : RMul(old, RInt(-1))), x_copy)

Reflection_apply(t, h, x) ==
    LET nd == Len(x.perm)
    IN  IF ~(0 <= t.axis /\ t.axis < nd) THEN Raise(h, "ValueError")
        ELSE Bind(np_copy(h, x), LAMBDA c :
                 LET x_copy == rearrange(c[2], Range(nd))
                 IN  Return(InPlace(c[1], x_copy, LAMBDA idx, old : RMul(old, RInt(-1))),
                            x_copy))

Dilation_apply(t, h, x) ==
    Bind(Value(h, x), LAMBDA a :
        ReturnNew(Alloc(h, Arr(a.shape,
                              AsSeq([k \in 1..Len(a.data) |-> RMul(a.data[k], t.factor)])))))

Shear_apply(t, h, x) ==
    LET nd == Len(x.perm)
        perm == SelectSeq(Range(nd), LAMBDA a : a # t.axis /\ a # t.source_axis)
                    \o <<t.axis, t.source_axis>>
        inverse_perm == argsort(perm)
    IN  IF ~(0 <= t.axis /\ t.axis < nd /\ 0 <= t.source_axis /\ t.source_axis < nd)
        THEN Raise(h, "ValueError")
        ELSE IF t.axis = t.source_axis THEN Raise(h, "ValueError")
        ELSE Bind(np_copy(h, x), LAMBDA c :
             Bind(rearrange(c[2], perm), LAMBDA x_reordered :
                 IF ViewShape(c[1], x_reordered)[nd] < 2 THEN Raise(c[1], "IndexError")
                 ELSE Return(InPlace(c[1], x_reordered,
                                     LAMBDA idx, old :
                                         IF idx[nd] = 0
                                         THEN RAdd(old, RMul(t.factor,
                                                  ViewGet(c[1], x_reordered,
                                                          [idx EXCEPT ![nd] = 1])))
                                         ELSE old),
                             rearrange(x_reordered, inverse_perm))))

Projection_apply(t, h, x) ==
    Bind(Value(h, x), LAMBDA a :
        IF a.shape[Ndim(a)] # t.projection.shape[2]
        THEN Raise(h, "ValueError")
        ELSE ReturnNew(Alloc(h, DotLast(a, Transpose(t.projection)))))

\* transform.apply(x), dispatched on the instance's class
apply(t, h, x) ==
    CASE t.kind = "Identity" -> Identity_apply(t, h, x)
      [] t.kind = "Rotation" -> Rotation_apply(t, h, x)
      [] t.kind = "Inverse" -> Inverse_apply(t, h, x)
      [] t.kind = "Reflection" -> Reflection_apply(t, h, x)
      [] t.kind = "Dilation" -> Dilation_apply(t, h, x)
      [] t.kind = "Shear" -> Shear_apply(t, h, x)
      [] t.kind = "Projection" -> Projection_apply(t, h, x)

\* the name property: the pieces of the f-string, or the exception raised
\* when it reads an attribute the instance does not have
Named(s) == [exc |-> "none", val |-> s]
NoAttr == [exc |-> "AttributeError", val |-> <<>>]

Transformation_name(t) ==
    CASE t.kind = "Identity" -> Named(<<"Identity">>)
      [] t.kind = "Rotation" -> Named(<<"Rotation">>)
      [] t.kind = "Inverse" -> Named(<<"Inverse">>)
      [] t.kind = "Reflection" -> Named(<<"Reflection(axis=", t.axis, ")">>)
      [] t.kind = "Dilation" -> Named(<<"Dilation(factor=", t.factor, ")">>)
      [] t.kind = "Shear" -> Named(<<"Shear(factor=", t.factor, ", axis=", t.axis, ")">>)
      [] t.kind = "Projection" ->
            IF "axis" \in DOMAIN t THEN Named(<<"Projection(axis=", t.axis, ")">>)
            ELSE NoAttr

\* ------------------------------------------------------------------------
\* Solver variants
\* ------------------------------------------------------------------------
ExactSolver == [kind |-> "ExactSolver", alpha |-> RZero]
MoorePenrosePseudoInverse == [kind |-> "MoorePenrosePseudoInverse", alpha |-> RZero]
LeastSquares == [kind |-> "LeastSquares", alpha |-> RZero]
SolveOrthogonalProjection == [kind |-> "SolveOrthogonalProjection", alpha |-> RZero]
MultiTaskLasso(alpha) == [kind |-> "MultiTaskLasso", alpha |-> alpha]
Ridge(alpha) == [kind |-> "Ridge", alpha |-> alpha]

issquare(x) == Ndim(x) = 2 /\ x.shape[1] = x.shape[2]

isfullrank(x) == matrix_rank(x) = MinOf(x.shape[1], x.shape[2])

\* the outcome of solve: the array returned, or the exception raised and its
\* message. coef names the fitted external model whose coef_ the array is.
NoArr == Arr(<<>>, <<>>)
Solved(a) == [exc |-> "none", msg |-> "", arr |-> a, coef |-> <<>>]
Fitted(shape, model) == [exc |-> "none", msg |-> "", arr |-> Arr(shape, <<>>), coef |-> model]
Failed(e, m) == [exc |-> e, msg |-> m, arr |-> NoArr, coef |-> <<>>]

\* np.linalg.solve(x, y) of a square full-rank x and a 2-D y
ExactSolver_solve(s, args) ==
    LET x == args[1]
        y == args[2]
    IN  IF Len(args) # 2 THEN Failed("TypeError", "solve() arguments")
        ELSE IF ~issquare(x) THEN Failed("LinAlgError", "Matrix is not square.")
        ELSE IF ~isfullrank(x) THEN Failed("LinAlgError", "Matrix is rank deficient.")
        ELSE IF y.shape[1] # x.shape[1] THEN Failed("ValueError", "solve: core dimension mismatch")
        ELSE Solved(MatMul(MatInv(x), y))

MoorePenrosePseudoInverse_solve(s, args) ==
    LET x == args[1]
        y == args[2]
    IN  IF Len(args) # 2 THEN Failed("TypeError", "solve() arguments")
        ELSE IF y.shape[1] # x.shape[1] THEN Failed("ValueError", "matmul: core dimension mismatch")
        ELSE Solved(MatMul(Pinv(x), y))

\* np.linalg.lstsq(x, y)[0]: the minimum-norm least-squares solution
LeastSquares_solve(s, args) ==
    LET x == args[1]
        y == args[2]
    IN  IF Len(args) # 2 THEN Failed("TypeError", "solve() arguments")
        ELSE IF y.shape[1] # x.shape[1] THEN Failed("LinAlgError", "Incompatible dimensions")
        ELSE Solved(MatMul(Pinv(x), y))

\* solve(self, x): takes x only
SolveOrthogonalProjection_solve(s, args) ==
    LET x == args[1]
        A == x
        AtA == MatMul(Transpose(A), A)
    IN  IF Len(args) # 1 THEN Failed("TypeError", "solve() arguments")
        ELSE IF isfullrank(x)
             THEN IF Det(AtA) = RZero THEN Failed("LinAlgError", "Singular matrix")
                  ELSE Solved(MatMul(MatMul(A, MatInv(AtA)), Transpose(A)))
             ELSE Solved(MatMul(A, Pinv(A)))

\* model.fit(x, y); model.coef_ of the external regression model
Sklearn_solve(s, args) ==
    LET x == args[1]
        y == args[2]
    IN  IF Len(args) # 2 THEN Failed("TypeError", "solve() arguments")
        ELSE IF y.shape[1] # x.shape[1] THEN Failed("ValueError", "inconsistent numbers of samples")
        ELSE Fitted(<<y.shape[2], x.shape[2]>>, <<s.kind, s.alpha, x, y>>)

\* solver.solve(*args), dispatched on the instance's class
solve(s, args) ==
    CASE s.kind = "ExactSolver" -> ExactSolver_solve(s, args)
      [] s.kind = "MoorePenrosePseudoInverse" -> MoorePenrosePseudoInverse_solve(s, args)
      [] s.kind = "LeastSquares" -> LeastSquares_solve(s, args)
      [] s.kind = "SolveOrthogonalProjection" -> SolveOrthogonalProjection_solve(s, args)
      [] s.kind = "MultiTaskLasso" -> Sklearn_solve(s, args)
      [] s.kind = "Ridge" -> Sklearn_solve(s, args)

Solver_name(s) ==
    CASE s.kind = "ExactSolver" -> "Exact Solver"
      [] s.kind = "MoorePenrosePseudoInverse" -> "Moore-Penrose Pseudo-Inverse"
      [] s.kind = "LeastSquares" -> "Least Squares"
      [] s.kind = "SolveOrthogonalProjection" -> "Orthogonal Projection"
      [] s.kind = "MultiTaskLasso" -> "LASSO"
      [] s.kind = "Ridge" -> "Ridge"

\* ------------------------------------------------------------------------
\* Python dicts keyed by strings
\* ------------------------------------------------------------------------
\* the values Pipeline.solve stores: a solver's array, or str(e)
ArrVal(o) == [str |-> "", arr |-> o.arr, coef |-> o.coef]
StrVal(m) == [str |-> m, arr |-> NoArr, coef |-> <<>>]

EmptyDict == [k \in {} |-> StrVal("")]

\* d.setdefault(k, v): an existing entry is kept
SetItem_setdefault(d, k, v) == [n \in (DOMAIN d) \cup {k} |-> IF n \in DOMAIN d THEN d[n] ELSE v]

SetItem(d, k, v) == [n \in (DOMAIN d) \cup {k} |-> IF n = k THEN v ELSE d[n]]

\* ------------------------------------------------------------------------
\* Instances and inputs
\* ------------------------------------------------------------------------
\* sequences over S of length at most n
SeqsUpTo(S, n) == UNION {[1..k -> S] : k \in 0..n}

Shapes(nd, sz) == UNION {[1..k -> 1..sz] : k \in 1..nd}

\* the array of the shape whose element at flat position k is base + step*k
Fill(shape, base, step) ==
    Arr(shape, AsSeq([k \in 1..Prod(shape) |-> RInt(base + step * (k - 1))]))

R90 == Arr(<<2, 2>>, <<RInt(0), RInt(-1), RInt(1), RInt(0)>>)
P22 == Arr(<<2, 2>>, <<RInt(1), RInt(0), RInt(0), RInt(0)>>)
P12 == Arr(<<1, 2>>, <<RInt(1), RInt(0)>>)

Axes == (-1)..MaxNdim

\* every variant, with parameters in and out of range
AllTransformations ==
    {Identity, Inverse, Rotation(R90), Rotation(P12), Projection(P22), Projection(P12)}
    \cup {Reflection(a) : a \in Axes}
    \cup {Dilation(f) : f \in {RZero, RInt(2), Rat(1, 2)}}
    \cup {Shear(f, a, b) : f \in {RZero, ROne}, a \in Axes, b \in Axes}

AllInputs ==
    {Fill(sh, b, st) : sh \in Shapes(MaxNdim, MaxSize), b \in {0, 1}, st \in {0, 1}}

\* the instances and inputs pipelines are built from and called with
PipeTransformations ==
    {Identity, Inverse, Rotation(R90), Reflection(0), Dilation(RInt(2)),
     Shear(ROne, 0, 1), Projection(P22)}

PipeSolvers ==
    {ExactSolver, MoorePenrosePseudoInverse, LeastSquares, SolveOrthogonalProjection,
     MultiTaskLasso(ROne), Ridge(ROne), Ridge(RInt(2))}

PipeInputs ==
    {Fill(<<2>>, 1, 1), Fill(<<1, 2>>, 1, 1), Fill(<<2, 1>>, 1, 1),
     Fill(<<2, 2>>, 1, 1), Fill(<<2, 2>>, 1, 0)}

SolveX == {a \in PipeInputs : Ndim(a) = 2}
SolveY == {Fill(<<m, 1>>, 2, 1) : m \in {1, 2}}

\* 2-D matrices with small entries, for the projection solver
Entries == {RInt(-1), RInt(0), RInt(1)}
Matrices ==
    UNION {{Arr(<<m, n>>, d) : d \in [1..(m * n) -> Entries]} : m \in 1..MaxDim, n \in 1..MaxDim}

\* ------------------------------------------------------------------------
\* State
\* ------------------------------------------------------------------------
VARIABLES
    transformations,    \* Pipeline.transformations
    solvers,            \* Pipeline.solvers
    pc,                 \* "idle", "running", "returned" or "raised"
    call,               \* the call in progress or last made
    prev,               \* the call made before it
    heap,               \* the array buffers
    xin,                \* the caller's reference to the array it passed as x
    x0,                 \* the value of the caller's array when the call was made
    x,                  \* the callee's local x; the returned array once returned
    y,                  \* the callee's local y
    i,                  \* position of the loop in the list (1-based)
    solutions,          \* Pipeline.solve's local dict; the returned mapping once returned
    exc,                \* the type of the exception that left the call
    trace,              \* list positions of the elements invoked during the call
    result              \* outcome of a call made on an instance directly

vars == <<transformations, solvers, pc, call, prev, heap, xin, x0, x, y, i, solutions, exc,
          trace, result>>

pipeline == <<transformations, solvers>>

Done == pc \in {"idle", "returned", "raised"}

NoResult == Failed("none", "")

Rest ==
    /\ pc = "idle" /\ call = "none" /\ prev = "none"
    /\ heap = <<>> /\ xin = NoView /\ x0 = NoArr /\ x = NoView /\ y = NoView
    /\ i = 0 /\ solutions = EmptyDict /\ exc = "none" /\ trace = <<>>
    /\ result = NoResult

\* Pipeline(transformations, solvers)
Init ==
    /\ transformations \in SeqsUpTo(PipeTransformations, MaxLen)
    /\ solvers \in SeqsUpTo(PipeSolvers, MaxLen)
    /\ Len(transformations) + Len(solvers) <= MaxLen
    /\ Rest

\* ------------------------------------------------------------------------
\* Pipeline.apply(x)
\* ------------------------------------------------------------------------
ApplyCall(a) ==
    /\ Done
    /\ pc' = "running" /\ call' = "apply" /\ prev' = call
    /\ heap' = <<a>>
    /\ xin' = View(1, Range(Ndim(a))) /\ x0' = a
    /\ x' = View(1, Range(Ndim(a))) /\ y' = NoView
    /\ i' = 1 /\ exc' = "none" /\ trace' = <<>>
    /\ solutions' = EmptyDict
    /\ UNCHANGED <<pipeline, result>>

\* the loop applying every transformation to the caller's x, not to the running value
ApplyStep_unthreaded ==
    /\ pc = "running" /\ call = "apply" /\ i <= Len(transformations)
    /\ \E o \in {apply(transformations[i], heap, xin)} :
           /\ heap' = o.heap
           /\ trace' = Append(trace, i)
           /\ IF o.exc = "none"
              THEN x' = o.res /\ i' = i + 1 /\ UNCHANGED <<pc, exc>>
              ELSE pc' = "raised" /\ exc' = o.exc /\ UNCHANGED <<x, i>>
    /\ UNCHANGED <<pipeline, call, prev, xin, x0, y, solutions, result>>

\* one iteration of: for transform in self.transformations: x = transform.apply(x)
ApplyStep ==
    /\ pc = "running" /\ call = "apply" /\ i <= Len(transformations)
    /\ \E o \in {apply(transformations[i], heap, x)} :
           /\ heap' = o.heap
           /\ trace' = Append(trace, i)
           /\ IF o.exc = "none"
              THEN x' = o.res /\ i' = i + 1 /\ UNCHANGED <<pc, exc>>
              ELSE pc' = "raised" /\ exc' = o.exc /\ UNCHANGED <<x, i>>
    /\ UNCHANGED <<pipeline, call, prev, xin, x0, y, solutions, result>>

\* return x
ApplyReturn ==
    /\ pc = "running" /\ call = "apply" /\ i > Len(transformations)
    /\ pc' = "returned"
    /\ UNCHANGED <<pipeline, call, prev, heap, xin, x0, x, y, i, solutions, exc, trace, result>>

\* ------------------------------------------------------------------------
\* Pipeline.solve(x, y)
\* ------------------------------------------------------------------------
\* solve filling a dict that outlives the call
SolveCall_shared(a, b) ==
    /\ Done
    /\ pc' = "running" /\ call' = "solve" /\ prev' = call
    /\ heap' = <<a, b>>
    /\ xin' = View(1, Range(Ndim(a))) /\ x0' = a
    /\ x' = View(1, Range(Ndim(a))) /\ y' = View(2, Range(Ndim(b)))
    /\ i' = 1 /\ exc' = "none" /\ trace' = <<>>
    /\ UNCHANGED <<pipeline, solutions, result>>

SolveCall(a, b) ==
    /\ Done
    /\ pc' = "running" /\ call' = "solve" /\ prev' = call
    /\ heap' = <<a, b>>
    /\ xin' = View(1, Range(Ndim(a))) /\ x0' = a
    /\ x' = View(1, Range(Ndim(a))) /\ y' = View(2, Range(Ndim(b)))
    /\ solutions' = EmptyDict
    /\ i' = 1 /\ exc' = "none" /\ trace' = <<>>
    /\ UNCHANGED <<pipeline, result>>

\* the loop without its except clause: a LinAlgError leaves the call
SolveStep_uncaught ==
    /\ pc = "running" /\ call = "solve" /\ i <= Len(solvers)
    /\ LET solver == solvers[i]
       IN  \E o \in {solve(solver, <<Value(heap, x), Value(heap, y)>>)} :
           /\ trace' = Append(trace, i)
           /\ IF o.exc = "none"
              THEN /\ solutions' = SetItem(solutions, Solver_name(solver), ArrVal(o))
                   /\ i' = i + 1 /\ UNCHANGED <<pc, exc>>
              ELSE pc' = "raised" /\ exc' = o.exc /\ UNCHANGED <<solutions, i>>
    /\ UNCHANGED <<pipeline, call, prev, heap, xin, x0, x, y, result>>

\* the loop with a blanket except: every exception is stored as a string
SolveStep_catchall ==
    /\ pc = "running" /\ call = "solve" /\ i <= Len(solvers)
    /\ LET solver == solvers[i]
       IN  \E o \in {solve(solver, <<Value(heap, x), Value(heap, y)>>)} :
           /\ trace' = Append(trace, i)
           /\ solutions' = SetItem(solutions, Solver_name(solver),
                                  IF o.exc = "none" THEN ArrVal(o) ELSE StrVal(o.msg))
           /\ i' = i + 1 /\ UNCHANGED <<pc, exc>>
    /\ UNCHANGED <<pipeline, call, prev, heap, xin, x0, x, y, result>>

\* one iteration of the loop over self.solvers, with its try/except
SolveStep ==
    /\ pc = "running" /\ call = "solve" /\ i <= Len(solvers)
    /\ LET solver == solvers[i]
       IN  \E o \in {solve(solver, <<Value(heap, x), Value(heap, y)>>)} :
           /\ trace' = Append(trace, i)
           /\ IF o.exc = "none"
              THEN /\ solutions' = SetItem(solutions, Solver_name(solver), ArrVal(o))
                   /\ i' = i + 1 /\ UNCHANGED <<pc, exc>>
              ELSE IF o.exc = "LinAlgError"
              THEN /\ solutions' = SetItem(solutions, Solver_name(solver), StrVal(o.msg))
                   /\ i' = i + 1 /\ UNCHANGED <<pc, exc>>
              ELSE pc' = "raised" /\ exc' = o.exc /\ UNCHANGED <<solutions, i>>
    /\ UNCHANGED <<pipeline, call, prev, heap, xin, x0, x, y, result>>

\* return solutions
SolveReturn ==
    /\ pc = "running" /\ call = "solve" /\ i > Len(solvers)
    /\ pc' = "returned"
    /\ UNCHANGED <<pipeline, call, prev, heap, xin, x0, x, y, i, solutions, exc, trace, result>>

Next ==
    \/ \E a \in PipeInputs : ApplyCall(a)
    \/ ApplyStep
    \/ ApplyReturn
    \/ \E a \in SolveX, b \in SolveY : SolveCall(a, b)
    \/ SolveStep
    \/ SolveReturn

Spec == Init /\ [][Next]_vars
\* ------------------------------------------------------------------------
\* Calls made on one Transformation instance: apply(x) and name
\* ------------------------------------------------------------------------
InitTransformation ==
    /\ transformations \in {<<t>> : t \in AllTransformations}
    /\ solvers = <<>>
    /\ Rest

\* transformations[1].apply(a)
TransformationApply(a) ==
    /\ pc = "idle"
    /\ \E o \in {apply(transformations[1], <<a>>, View(1, Range(Ndim(a))))} :
           /\ heap' = o.heap
           /\ x' = o.res
           /\ exc' = o.exc
           /\ pc' = IF o.exc = "none" THEN "returned" ELSE "raised"
    /\ call' = "Transformation.apply" /\ prev' = call
    /\ xin' = View(1, Range(Ndim(a))) /\ x0' = a
    /\ y' = NoView /\ i' = 0 /\ solutions' = EmptyDict /\ trace' = <<>>
    /\ result' = NoResult
    /\ UNCHANGED pipeline

\* transformations[1].name
TransformationName ==
    /\ pc = "idle"
    /\ \E o \in {Transformation_name(transformations[1])} :
           /\ result' = [exc |-> o.exc, msg |-> "", arr |-> NoArr, coef |-> o.val]
           /\ exc' = o.exc
           /\ pc' = IF o.exc = "none" THEN "returned" ELSE "raised"
    /\ call' = "Transformation.name" /\ prev' = call
    /\ heap' = <<>> /\ xin' = NoView /\ x0' = NoArr /\ x' = NoView /\ y' = NoView
    /\ i' = 0 /\ solutions' = EmptyDict /\ trace' = <<>>
    /\ UNCHANGED pipeline

NextTransformation ==
    \/ \E a \in AllInputs : TransformationApply(a)
    \/ TransformationName

SpecTransformation == InitTransformation /\ [][NextTransformation]_vars

\* ------------------------------------------------------------------------
\* Calls made on a SolveOrthogonalProjection instance: solve(x)
\* ------------------------------------------------------------------------
InitProjection ==
    /\ transformations = <<>>
    /\ solvers = <<SolveOrthogonalProjection>>
    /\ Rest

\* solvers[1].solve(a)
ProjectionSolve(a) ==
    /\ pc = "idle"
    /\ \E o \in {solve(solvers[1], <<a>>)} :
           /\ result' = o
           /\ exc' = o.exc
           /\ pc' = IF o.exc = "none" THEN "returned" ELSE "raised"
    /\ call' = "Solver.solve" /\ prev' = call
    /\ heap' = <<a>> /\ xin' = View(1, Range(Ndim(a))) /\ x0' = a
    /\ x' = View(1, Range(Ndim(a))) /\ y' = NoView
    /\ i' = 0 /\ solutions' = EmptyDict /\ trace' = <<>>
    /\ UNCHANGED pipeline

NextProjection == \E a \in Matrices : ProjectionSolve(a)

SpecProjection == InitProjection /\ [][NextProjection]_vars

\* ------------------------------------------------------------------------
\* Properties of Pipeline.solve
\* ------------------------------------------------------------------------
\* what solver k of the list does on the arguments of the call in progress
Outcome(k) == solve(solvers[k], <<Value(heap, x), Value(heap, y)>>)

Caught(o) == o.exc \in {"none", "LinAlgError"}

\* what the loop stores for an outcome it does not let through
Stored(o) == IF o.exc = "none" THEN ArrVal(o) ELSE StrVal(o.msg)

NameOf(k) == Solver_name(solvers[k])

\* the last position up to n whose solver has the name of solver k
LastNamed(k, n) ==
    CHOOSE j \in k..n : NameOf(j) = NameOf(k) /\ \A m \in (j + 1)..n : NameOf(m) # NameOf(k)

InOrder == \A j \in 1..Len(trace) : trace[j] = j

\* C1, as stated: whenever some solver of the list raised a LinAlgError during a
\* Pipeline.solve call, that call does not raise.
C1_NeverRaises ==
    (call = "solve" /\ \E k \in 1..Len(trace) : Outcome(k).exc = "LinAlgError")
        => pc # "raised"

\* C1, amended: a LinAlgError raised by solver k does not leave Pipeline.solve.
\* The loop goes on past k, with str(error) stored under k's name and the entries
\* of earlier solvers with other names kept (each name holding what the last
\* solver of that name so far produced); the solvers are invoked in list order;
\* the call returns, having invoked every solver, unless a solver raises an
\* exception that is not a LinAlgError, and only that solver makes it raise.
C1_LinAlgErrorIsolated ==
    call = "solve" =>
        \A k \in 1..Len(trace) :
            Outcome(k).exc = "LinAlgError" =>
                /\ InOrder
                /\ i > k
                /\ pc = "raised" => ~Caught(Outcome(i))
                /\ pc = "returned" => Len(trace) = Len(solvers)
                /\ pc = "running" => Len(trace) = i - 1
                /\ \A j \in 1..k :
                      /\ NameOf(j) \in DOMAIN solutions
                      /\ solutions[NameOf(j)] = Stored(Outcome(LastNamed(j, i - 1)))
                /\ LastNamed(k, i - 1) = k => solutions[NameOf(k)] = StrVal(Outcome(k).msg)

\* a call that returned although a solver before the last raised a LinAlgError
C1_Witness ==
    /\ call = "solve" /\ pc = "returned"
    /\ \E k \in 1..(Len(solvers) - 1) :
          /\ Outcome(k).exc = "LinAlgError"
          /\ Outcome(k + 1).exc = "none"
          /\ NameOf(k) # NameOf(k + 1)

\* C2: an exception of a solver that is not a LinAlgError leaves Pipeline.solve:
\* the call raises that exception at that solver, no later solver is invoked and
\* no mapping is returned.
C2_OtherErrorsPropagate ==
    call = "solve" =>
        \A k \in 1..Len(trace) :
            ~Caught(Outcome(k)) =>
                /\ pc = "raised"
                /\ exc = Outcome(k).exc
                /\ i = k
                /\ Len(trace) = k

\* the projection solver, called with (x, y), raised TypeError before the end of the list
C2_Witness ==
    /\ call = "solve" /\ pc = "raised" /\ exc = "TypeError"
    /\ i < Len(solvers)
    /\ solvers[i] = SolveOrthogonalProjection

\* C3: when Pipeline.solve returns, the mapping's keys are exactly the distinct
\* solver names, and each name holds the outcome of the last solver of that name.
C3_LastOfNameWins ==
    (call = "solve" /\ pc = "returned") =>
        /\ DOMAIN solutions = {NameOf(k) : k \in 1..Len(solvers)}
        /\ \A k \in 1..Len(solvers) :
              solutions[NameOf(k)] = Stored(Outcome(LastNamed(k, Len(solvers))))

\* a returned call over two solvers of one name with different outcomes
C3_Witness ==
    /\ call = "solve" /\ pc = "returned"
    /\ \E j \in 1..Len(solvers), k \in 1..Len(solvers) :
          /\ j < k
          /\ NameOf(j) = NameOf(k)
          /\ Stored(Outcome(j)) # Stored(Outcome(k))

\* ------------------------------------------------------------------------
\* Properties of Pipeline.apply
\* ------------------------------------------------------------------------
\* tn.apply(... t2.apply(t1.apply(v)) ...), an exception ending the evaluation
RECURSIVE Composed(_, _, _)
Composed(ts, h, v) ==
    IF ts = <<>> THEN Return(h, v)
    ELSE Bind(Composed(SubSeq(ts, 1, Len(ts) - 1), h, v), LAMBDA inner :
             IF inner.exc # "none" THEN inner
             ELSE apply(ts[Len(ts)], inner.heap, inner.res))

\* C4: Pipeline.apply returns the composition of the transformations in list
\* order, each applied once to the output of the one before; with no
\* transformations it returns x itself; when a stage raises, the call raises that
\* error and no later stage is applied.
C4_AppliesInOrder ==
    call = "apply" =>
        \E c \in {Composed(transformations, <<x0>>, xin)} :
            /\ InOrder
            /\ pc = "returned" =>
                  /\ c.exc = "none"
                  /\ Value(heap, x) = Value(c.heap, c.res)
                  /\ Len(trace) = Len(transformations)
                  /\ transformations = <<>> => (x = xin /\ Value(heap, x) = x0)
            /\ pc = "raised" =>
                  /\ exc # "none" /\ c.exc = exc
                  /\ Len(trace) = i
                  /\ Composed(SubSeq(transformations, 1, i - 1), <<x0>>, xin).exc = "none"

\* a returned call over two different transformations that changed the array
C4_Witness ==
    /\ call = "apply" /\ pc = "returned"
    /\ Len(transformations) = 2
    /\ transformations[1] # transformations[2]
    /\ Composed(<<transformations[2], transformations[1]>>, <<x0>>, xin).exc = "none"
    /\ Value(heap, x) # x0

\* C9: during and after Pipeline.apply, returned or raised, over any list of
\* transformations, the caller's array holds the elements it held at the call.
C9_InputNotMutated == call = "apply" => Value(heap, xin) = x0

\* Identity handed the caller's own array to a Reflection or a Shear, which
\* returned a changed array
C9_Witness ==
    /\ call = "apply" /\ pc = "returned"
    /\ Len(transformations) = 2
    /\ transformations[1] = Identity
    /\ transformations[2].kind \in {"Reflection", "Shear"}
    /\ Value(heap, x) # x0

\* C10: no call changes the Pipeline's two lists, and the mapping of a
\* Pipeline.solve call holds only entries written during that call: each key is
\* the name of a solver the call has invoked, with an outcome of this call.
C10_Stateless ==
    /\ [][transformations' = transformations /\ solvers' = solvers]_vars
    /\ [](call = "solve" =>
            \A n \in DOMAIN solutions :
                \E k \in 1..Len(trace) :
                    /\ Caught(Outcome(k))
                    /\ NameOf(k) = n
                    /\ solutions[n] = Stored(Outcome(k)))

\* a solve call that returned entries, made right after another solve call
C10_Witness ==
    /\ call = "solve" /\ prev = "solve" /\ pc = "returned"
    /\ solutions # EmptyDict

\* ------------------------------------------------------------------------
\* Properties of the Transformation variants
\* ------------------------------------------------------------------------
TheTransformation == transformations[1]

\* the conditions apply is to reject: an axis out of range, equal axes, trailing
\* dimensions that are not square, a last dimension unlike the projection's columns
Rejected(t, a) ==
    \/ t.kind = "Reflection" /\ ~(0 <= t.axis /\ t.axis < Ndim(a))
    \/ t.kind = "Shear" /\ ~(0 <= t.axis /\ t.axis < Ndim(a))
    \/ t.kind = "Shear" /\ ~(0 <= t.source_axis /\ t.source_axis < Ndim(a))
    \/ t.kind = "Shear" /\ t.axis = t.source_axis
    \/ t.kind = "Inverse" /\ Ndim(a) >= 2 /\ a.shape[Ndim(a)] # a.shape[Ndim(a) - 1]
    \/ t.kind = "Projection" /\ a.shape[Ndim(a)] # t.projection.shape[2]

\* C6, as stated: reading name on an instance of any variant returns a string.
C6_NameNeverRaises == call = "Transformation.name" => (pc = "returned" /\ result.exc = "none")

\* C7, as stated: Shear with factor 0 and distinct axes in range returns an array
\* of the same shape and elements as its input, whatever the sizes.
C7_ShearZeroIsIdentity ==
    (/\ call = "Transformation.apply"
     /\ TheTransformation.kind = "Shear"
     /\ TheTransformation.factor = RZero
     /\ ~Rejected(TheTransformation, x0))
        => (pc = "returned" /\ Value(heap, x) = x0)

\* C8: apply on a rejected condition raises ValueError before anything else: no
\* array has been allocated, nothing is returned, the input is as it was.
C8_RejectedFirst ==
    (call = "Transformation.apply" /\ Rejected(TheTransformation, x0))
        => /\ pc = "raised" /\ exc = "ValueError"
           /\ x = NoView
           /\ heap = <<x0>>

\* a Reflection whose axis is the input's ndim was applied
C8_Witness ==
    /\ call = "Transformation.apply"
    /\ TheTransformation.kind = "Reflection"
    /\ TheTransformation.axis = Ndim(x0)
    /\ pc = "raised"

\* ------------------------------------------------------------------------
\* Properties of SolveOrthogonalProjection
\* ------------------------------------------------------------------------
\* C5, as stated: on every 2-D x with rank(x) = min(x.shape), solve(x) returns
\* an idempotent matrix.
C5_FullRankIdempotent ==
    (call = "Solver.solve" /\ isfullrank(x0))
        => (pc = "returned" /\ MatMul(result.arr, result.arr) = result.arr)

====
